---- MODULE Spec2Model ----
(***************************************************************************)
(* Model of groq_medical_app/app.py: the patients and chats tables, the    *)
(* login form, the chat view and the /api/send_message handler with its    *)
(* context assembly and its call of the chat-completion endpoint.          *)
(*                                                                         *)
(* Text is a sequence of tokens; the token " " is whitespace.  A Python    *)
(* or JSON value is a record [t, n, s]: its type tag, its integer value    *)
(* and its text.  Columns and views no property below reads (age, gender,  *)
(* phone, patients.created_at, the dashboard and the records view) are     *)
(* left out; the chat view, which only reads, is the operator ChatView.    *)
(* Requests are handled one at a time.                                     *)
(***************************************************************************)
EXTENDS Integers, Sequences, FiniteSets

\* ---------------------------------------------------------------- bounds
MaxPatients == 2
MaxRequests == 2
MaxClock == 1
MaxClientRequests == 1
MaxHistory == 22
MaxMarked == 1

\* ---------------------------------------------------------------- values
SP == " "

PyNone == [t |-> "none", n |-> 0, s |-> <<>>]
\* a key that the dict does not hold
Absent == [t |-> "absent", n |-> 0, s |-> <<>>]
PyInt(k) == [t |-> "int", n |-> k, s |-> <<>>]
PyStr(x) == [t |-> "str", n |-> 0, s |-> x]
\* a non-empty JSON array or object where a string was expected
PyObj == [t |-> "obj", n |-> 0, s |-> <<>>]

\* Python truthiness: `not v` is ~Truthy(v)
Truthy(v) ==
  CASE v.t = "int" -> v.n # 0
    [] v.t = "str" -> v.s # <<>>
    [] v.t = "obj" -> TRUE
    [] OTHER -> FALSE

\* dict.get(key, default)
DictGet(field, default) == IF field.t = "absent" THEN default ELSE field

\* a or b
PyOr(a, b) == IF Truthy(a) THEN a ELSE b

RECURSIVE lstrip(_)
lstrip(s) == IF s # <<>> /\ Head(s) = SP THEN lstrip(Tail(s)) ELSE s

RECURSIVE rstrip(_)
rstrip(s) ==
  IF s # <<>> /\ s[Len(s)] = SP THEN rstrip(SubSeq(s, 1, Len(s) - 1)) ELSE s

\* str.strip()
strip(s) == rstrip(lstrip(s))

Min(a, b) == IF a <= b THEN a ELSE b

\* ---------------------------------------------------------------- fixed strings
SYSTEM_CONTENT ==
  <<"You are a helpful medical assistant. Provide general information and safe suggestions. ",
    "Do NOT give definitive diagnoses. If symptoms sound urgent or dangerous, advise the user to seek immediate professional care.">>
KEY_ADVISORY == <<"AI key not configured on server. Ask admin to set GROQ_API_KEY env variable.">>
EMPTY_ADVISORY == <<"Sorry, the AI returned an empty response.">>
ERROR_PREFIX == <<"Sorry, AI service error: ">>

system_msg == [role |-> "system", content |-> PyStr(SYSTEM_CONTENT)]

\* ---------------------------------------------------------------- storage
\* a bug: after the first row the sequence is not advanced
NextRowidReused(seq) == IF seq = 0 THEN 1 ELSE seq

\* INTEGER PRIMARY KEY AUTOINCREMENT: one more than the largest rowid ever used
NextRowid(seq) == seq + 1

\* the row of an INSERT INTO chats (patient_id, role, content); created_at
\* defaults to CURRENT_TIMESTAMP
ChatRow(id, pid, role, content, ts) ==
  [id |-> id, patient_id |-> pid, role |-> role, content |-> content, created_at |-> ts]

\* WHERE patient_id = ?
WherePatient(rows, pid) == SelectSeq(rows, LAMBDA r : r.patient_id = pid)

\* r placed behind every row that is not later than it (ties keep scan order)
RECURSIVE InsertByCreatedAt(_, _)
InsertByCreatedAt(sorted, r) ==
  IF sorted = <<>> THEN <<r>>
  ELSE IF sorted[Len(sorted)].created_at <= r.created_at THEN Append(sorted, r)
  ELSE Append(InsertByCreatedAt(SubSeq(sorted, 1, Len(sorted) - 1), r), sorted[Len(sorted)])

\* ORDER BY created_at ASC over a scan in rowid order
RECURSIVE OrderByCreatedAt(_)
OrderByCreatedAt(rows) ==
  IF rows = <<>> THEN <<>>
  ELSE InsertByCreatedAt(OrderByCreatedAt(SubSeq(rows, 1, Len(rows) - 1)), rows[Len(rows)])

\* LIMIT n
Limit(rows, n) == SubSeq(rows, 1, Min(n, Len(rows)))

CONTEXT_LIMIT == 40

\* SELECT role, content FROM chats WHERE patient_id = ? ORDER BY created_at ASC LIMIT 40
ContextRows(rows, pid) == Limit(OrderByCreatedAt(WherePatient(rows, pid)), CONTEXT_LIMIT)

\* SELECT role, content, created_at FROM chats WHERE patient_id = ? ORDER BY created_at ASC
HistoryRows(rows, pid) == OrderByCreatedAt(WherePatient(rows, pid))

\* sqlite3 binds None, int and str parameters; a list or dict raises
Bindable(v) == v.t \in {"none", "int", "str"}

\* ---------------------------------------------------------------- conversation assembler
\* role = "user" if r["role"] == "user" else "assistant"
RoleTag(role) == IF role = "user" THEN "user" ELSE "assistant"

ContextMessage(r) == [role |-> RoleTag(r.role), content |-> r.content]

\* the message list: system message, the selected rows, the current utterance
BuildMessages(rows, user_message) ==
  <<system_msg>> \o [i \in 1..Len(rows) |-> ContextMessage(rows[i])]
    \o <<[role |-> "user", content |-> PyStr(user_message)]>>

\* ---------------------------------------------------------------- completion client
Raise(e) == [exc |-> e, val |-> PyNone]
Return(v) == [exc |-> "", val |-> v]

\* j.get("choices", [{}])[0].get("message", {}).get("content", "")
MessageContent(j) ==
  IF j.top # "dict" THEN Raise("AttributeError")
  ELSE IF j.choices = "empty" THEN Raise("IndexError")
  ELSE IF j.choices = "scalar" THEN Raise("AttributeError")
  ELSE IF j.choices = "absent" \/ j.message = "absent" THEN Return(PyStr(<<>>))
  ELSE IF j.message = "null" THEN Raise("AttributeError")
  ELSE Return(DictGet(j.content, PyStr(<<>>)))

\* j.get("choices", [{}])[0].get("text", "")
ChoiceText(j) ==
  IF j.top # "dict" THEN Raise("AttributeError")
  ELSE IF j.choices = "empty" THEN Raise("IndexError")
  ELSE IF j.choices = "scalar" THEN Raise("AttributeError")
  ELSE IF j.choices = "absent" THEN Return(PyStr(<<>>))
  ELSE Return(DictGet(j.text, PyStr(<<>>)))

\* a bug: no fallback to the text field or the empty-response advisory
ParseReplyNoFallback(j) == MessageContent(j)

\* the body of the try block after resp.json()
ParseReply(j) ==
  LET c == MessageContent(j) IN
  IF c.exc # "" \/ Truthy(c.val) THEN c
  ELSE LET x == ChoiceText(j) IN
       IF x.exc # "" THEN x ELSE Return(PyOr(x.val, PyStr(EMPTY_ADVISORY)))

\* requests.post, raise_for_status and resp.json(), then the extraction
TryCompletion(o) == IF o.kind # "json" THEN Raise(o.kind) ELSE ParseReply(o)

\* except Exception as e: "Sorry, AI service error: " + str(e)
CompletionText(o) ==
  LET r == TryCompletion(o) IN
  IF r.exc # "" THEN PyStr(ERROR_PREFIX \o <<r.exc>>) ELSE r.val

\* a bug: the test of the credential inverted
AssistantTextKeyTestInverted(key, o) ==
  IF key # <<>> THEN PyStr(KEY_ADVISORY) ELSE CompletionText(o)

\* if not GROQ_API_KEY: ... else: ...
AssistantText(key, o) == IF key = <<>> THEN PyStr(KEY_ADVISORY) ELSE CompletionText(o)

\* ---------------------------------------------------------------- inputs
\* the patient_id of a JSON body: missing or null, 0, "", " ", 1, 2
PatientIdInputs == {PyNone, PyInt(0), PyStr(<<>>), PyStr(<<SP>>), PyInt(1), PyInt(2)}

\* the message of a JSON body: missing or null, "", " ", "hi", " hi "
MessageInputs ==
  {PyNone, PyStr(<<>>), PyStr(<<SP>>), PyStr(<<"hi">>), PyStr(<<SP, "hi", SP>>)}

RequestInputs == [patient_id : PatientIdInputs, message : MessageInputs]

\* the name field of the login form: "", " ", "ann", " ann"
NameInputs == {<<>>, <<SP>>, <<"ann">>, <<SP, "ann">>}

\* what the endpoint can answer: an exception of requests.post, raise_for_status
\* or resp.json(), or a parsed body
Failure(k) ==
  [kind |-> k, top |-> "other", choices |-> "absent", message |-> "absent",
   content |-> Absent, text |-> Absent]

Json(top, choices, message, content, text) ==
  [kind |-> "json", top |-> top, choices |-> choices, message |-> message,
   content |-> content, text |-> text]

NoOutcome == Failure("none")

FalsyFields == {Absent, PyNone, PyStr(<<>>)}
TextFields == FalsyFields \cup {PyStr(<<"alt">>), PyObj}

Outcomes ==
  {Failure(k) : k \in {"ConnectionError", "ReadTimeout", "HTTPError", "JSONDecodeError"}}
    \cup {Json("other", "absent", "absent", Absent, Absent)}
    \cup {Json("dict", c, "absent", Absent, Absent) : c \in {"absent", "empty", "scalar"}}
    \cup {Json("dict", "dict", "null", Absent, Absent)}
    \cup {Json("dict", "dict", "absent", Absent, x) : x \in TextFields}
    \cup {Json("dict", "dict", "dict", c, x) : c \in FalsyFields, x \in TextFields}
    \cup {Json("dict", "dict", "dict", c, Absent) : c \in {PyStr(<<"rest">>), PyObj}}
    \cup {Json("dict", "dict", "dict", PyStr(<<"rest">>), PyStr(<<"alt">>))}

\* one answer of each kind: a failure, a reply, a content that is no string
SomeOutcomes ==
  {Failure("ReadTimeout"), Json("dict", "dict", "dict", PyStr(<<"rest">>), Absent),
   Json("dict", "dict", "dict", PyObj, Absent)}

\* ---------------------------------------------------------------- state
VARIABLES
  patients,        \* the patients table, in rowid order
  patients_seq,    \* sqlite_sequence of patients
  chats,           \* the chats table, in rowid order
  chats_seq,       \* sqlite_sequence of chats
  now,             \* CURRENT_TIMESTAMP, in seconds
  GROQ_API_KEY,    \* the credential read at start; <<>> when unset or empty
  pc,              \* position of the send_message request being handled
  patient_id,      \* its patient_id
  user_message,    \* its trimmed message
  messages,        \* its assembled message list
  outcome,         \* what the endpoint answered it
  assistant_text,  \* its reply text
  response,        \* the last response of /api/send_message
  accepted,        \* history: patient_id of every request that passed validation
  posts,           \* history: number of requests.post calls issued
  log,             \* history: steps taken by the request being handled
  prior,           \* history: the patient's turns stored when the request arrived
  issued           \* history: identifiers the login form returned, in order

vars ==
  <<patients, patients_seq, chats, chats_seq, now, GROQ_API_KEY, pc, patient_id,
    user_message, messages, outcome, assistant_text, response, accepted, posts, log,
    prior, issued>>

db == <<patients, patients_seq, chats, chats_seq>>
request == <<patient_id, user_message, messages, outcome, assistant_text>>

Response(status, error, reply) == [status |-> status, error |-> error, reply |-> reply]

NoResponse == Response(0, "", PyNone)

Init ==
  /\ patients = <<>>
  /\ patients_seq = 0
  /\ chats = <<>>
  /\ chats_seq = 0
  /\ now = 0
  /\ GROQ_API_KEY \in {<<>>, <<"gsk">>}
  /\ pc = "idle"
  /\ patient_id = PyNone
  /\ user_message = <<>>
  /\ messages = <<>>
  /\ outcome = NoOutcome
  /\ assistant_text = PyNone
  /\ response = NoResponse
  /\ accepted = <<>>
  /\ posts = 0
  /\ log = <<>>
  /\ prior = <<>>
  /\ issued = <<>>

\* ---------------------------------------------------------------- clock
Tick ==
  /\ now < MaxClock
  /\ now' = now + 1
  /\ UNCHANGED <<db, GROQ_API_KEY, pc, request, response, accepted, posts, log, prior, issued>>

\* ---------------------------------------------------------------- POST /
\* cur.lastrowid after the INSERT INTO patients
LastRowid(seq) == NextRowid(seq)

Login(name_field) ==
  LET name == strip(name_field) IN
  /\ pc = "idle"
  /\ IF name = <<>>
     THEN UNCHANGED <<db, issued>>
     ELSE /\ Len(patients) < MaxPatients
          /\ patients' = Append(patients, [id |-> NextRowid(patients_seq), name |-> name])
          /\ patients_seq' = NextRowid(patients_seq)
          /\ issued' = Append(issued, LastRowid(patients_seq))
          /\ UNCHANGED <<chats, chats_seq>>
  /\ UNCHANGED <<now, GROQ_API_KEY, pc, request, response, accepted, posts, log, prior>>

\* ---------------------------------------------------------------- GET /chat/<int:patient_id>
PatientExists(id) == \E i \in 1..Len(patients) : patients[i].id = id

HistoryEntry(r) == [role |-> r.role, content |-> r.content, created_at |-> r.created_at]

\* what the chat view answers for patient `id` in the current state
ChatView(id) ==
  IF ~PatientExists(id)
  THEN [status |-> 404, history |-> <<>>]
  ELSE LET rows == HistoryRows(chats, PyInt(id)) IN
       [status |-> 200, history |-> [i \in 1..Len(rows) |-> HistoryEntry(rows[i])]]

\* ---------------------------------------------------------------- POST /api/send_message
\* a bug: the message is not trimmed
TrimmedMessageUnstripped(data) == PyOr(data.message, PyStr(<<>>)).s

\* (data.get("message") or "").strip()
TrimmedMessage(data) == strip(PyOr(data.message, PyStr(<<>>)).s)

\* if not patient_id or not user_message
Invalid(pid, msg) == ~Truthy(pid) \/ msg = <<>>

\* return jsonify({"error": "invalid input"}), 400
Reject(data) ==
  /\ pc = "idle"
  /\ Invalid(data.patient_id, TrimmedMessage(data))
  /\ response' = Response(400, "invalid input", PyNone)
  /\ UNCHANGED <<db, now, GROQ_API_KEY, pc, request, accepted, posts, log, prior, issued>>

\* the request passes validation
Accept(data) ==
  /\ pc = "idle"
  /\ ~Invalid(data.patient_id, TrimmedMessage(data))
  /\ patient_id' = data.patient_id
  /\ user_message' = TrimmedMessage(data)
  /\ messages' = <<>>
  /\ outcome' = NoOutcome
  /\ assistant_text' = PyNone
  /\ response' = NoResponse
  /\ accepted' = Append(accepted, data.patient_id)
  /\ log' = <<>>
  /\ prior' = WherePatient(chats, data.patient_id)
  /\ pc' = "save_user"
  /\ UNCHANGED <<db, now, GROQ_API_KEY, posts, issued>>

\* a bug: the user turn is not stored before the context is built
InsertUserDeferred(rows) == rows

\* INSERT INTO chats (patient_id, role, content) VALUES (?, 'user', ?)
InsertUser(rows) ==
  Append(rows, ChatRow(NextRowid(chats_seq), patient_id, "user", PyStr(user_message), now))

\* Save user message
SaveUser ==
  /\ pc = "save_user"
  /\ chats' = InsertUser(chats)
  /\ chats_seq' = NextRowid(chats_seq)
  /\ log' = Append(log, "save_user")
  /\ pc' = "assemble"
  /\ UNCHANGED <<patients, patients_seq, now, GROQ_API_KEY, request, response, accepted,
                 posts, prior, issued>>

\* Build recent conversation for context
Assemble ==
  /\ pc = "assemble"
  /\ messages' = BuildMessages(ContextRows(chats, patient_id), user_message)
  /\ log' = Append(log, "assemble")
  /\ pc' = "complete"
  /\ UNCHANGED <<db, now, GROQ_API_KEY, patient_id, user_message, outcome, assistant_text,
                 response, accepted, posts, prior, issued>>

\* Call Groq: no call without a key, else one requests.post answered by o
Complete(o) ==
  /\ pc = "complete"
  /\ (GROQ_API_KEY = <<>>) <=> (o = NoOutcome)
  /\ outcome' = o
  /\ posts' = IF GROQ_API_KEY = <<>> THEN posts ELSE posts + 1
  /\ assistant_text' = AssistantText(GROQ_API_KEY, o)
  /\ log' = Append(log, "complete")
  /\ pc' = "save_assistant"
  /\ UNCHANGED <<db, now, GROQ_API_KEY, patient_id, user_message, messages, response,
                 accepted, prior, issued>>

\* INSERT INTO chats (patient_id, role, content) VALUES (?, 'assistant', ?)
InsertAssistant(rows) ==
  Append(rows, ChatRow(NextRowid(chats_seq), patient_id, "assistant", assistant_text, now))

\* Save assistant reply; a parameter sqlite3 cannot bind raises out of the handler
SaveAssistant ==
  /\ pc = "save_assistant"
  /\ IF Bindable(assistant_text)
     THEN /\ chats' = InsertAssistant(chats)
          /\ chats_seq' = NextRowid(chats_seq)
          /\ log' = Append(log, "save_assistant")
          /\ pc' = "reply"
          /\ UNCHANGED response
     ELSE /\ response' = Response(500, "ProgrammingError", PyNone)
          /\ log' = Append(log, "error")
          /\ pc' = "idle"
          /\ UNCHANGED <<chats, chats_seq>>
  /\ UNCHANGED <<patients, patients_seq, now, GROQ_API_KEY, request, accepted, posts,
                 prior, issued>>

\* return jsonify({"reply": assistant_text})
Reply ==
  /\ pc = "reply"
  /\ response' = Response(200, "", assistant_text)
  /\ log' = Append(log, "reply")
  /\ pc' = "idle"
  /\ UNCHANGED <<db, now, GROQ_API_KEY, request, accepted, posts, prior, issued>>

\* ---------------------------------------------------------------- specifications
\* the whole application
Next ==
  \/ Tick
  \/ \E name_field \in NameInputs : Login(name_field)
  \/ \E data \in RequestInputs : Reject(data)
  \/ \E data \in RequestInputs : Len(accepted) < MaxRequests /\ Accept(data)
  \/ SaveUser
  \/ Assemble
  \/ \E o \in SomeOutcomes \cup {NoOutcome} : Complete(o)
  \/ SaveAssistant
  \/ Reply

Spec == Init /\ [][Next]_vars

\* the completion client under every answer of the endpoint
ClientRequest == [patient_id |-> PyInt(1), message |-> PyStr(<<"hi">>)]

NextClient ==
  \/ Tick
  \/ \E name_field \in NameInputs : Login(name_field)
  \/ Len(accepted) < MaxClientRequests /\ Accept(ClientRequest)
  \/ SaveUser
  \/ Assemble
  \/ \E o \in Outcomes \cup {NoOutcome} : Complete(o)
  \/ SaveAssistant
  \/ Reply

SpecClient == Init /\ [][NextClient]_vars

\* one patient's long conversation; at most MaxMarked of its messages differ
\* from the others, so that a position in the history can be told from the rest
MARK == <<"mark">>

Marked(rows) == Cardinality({i \in 1..Len(rows) : rows[i].content = PyStr(MARK)})

HistoryRequest(m) == [patient_id |-> PyInt(1), message |-> PyStr(m)]

NextHistory ==
  \/ Tick
  \/ Len(patients) < 1 /\ Login(<<"ann">>)
  \/ \E m \in {<<"hi">>, MARK} :
       /\ Len(accepted) < MaxHistory
       /\ PatientExists(1)
       /\ m = MARK => Marked(chats) < MaxMarked
       /\ Accept(HistoryRequest(m))
  \/ SaveUser
  \/ Assemble
  \/ \E o \in {Json("dict", "dict", "dict", PyStr(<<"rest">>), Absent), NoOutcome} : Complete(o)
  \/ SaveAssistant
  \/ Reply

SpecHistory == Init /\ [][NextHistory]_vars

\* ---------------------------------------------------------------- properties
\* the role-tagged messages the specification expects for stored turns
ExpectedContext(turns) ==
  [i \in 1..Len(turns) |->
     [role |-> IF turns[i].role = "user" THEN "user" ELSE "assistant",
      content |-> turns[i].content]]

LastTurns(turns, n) == SubSeq(turns, Len(turns) - n + 1, Len(turns))

NewUtterance == [role |-> "user", content |-> PyStr(user_message)]

Count(seq, x) == Cardinality({i \in 1..Len(seq) : seq[i] = x})

IsPrefix(p, q) == Len(p) <= Len(q) /\ p = SubSeq(q, 1, Len(p))

\* C1: when the patient has more than 40 stored prior turns, the message list
\* sent for completion holds, between the system message and the new utterance,
\* exactly the 40 most recent prior turns in ascending order.
C1_MostRecentForty ==
  (pc = "complete" /\ Len(prior) > 40) =>
    messages = <<system_msg>> \o ExpectedContext(LastTurns(prior, 40)) \o <<NewUtterance>>

\* C2: with k < 40 prior turns the message list has exactly k + 2 entries: the
\* system message, the k prior turns in ascending order, the new utterance once.
C2_PriorTurnsPlusTwo ==
  (pc = "complete" /\ Len(prior) < 40) =>
    /\ Len(messages) = Len(prior) + 2
    /\ messages = <<system_msg>> \o ExpectedContext(prior) \o <<NewUtterance>>

\* C3: after N accepted requests for a patient, whatever the completion calls
\* answered, the patient has exactly 2N stored turns, and the chat view lists
\* them in creation order, each user turn followed by its assistant reply.
C3_TwoTurnsPerRequest ==
  pc = "idle" =>
    \A id \in 1..MaxPatients :
      LET stored == WherePatient(chats, PyInt(id)) IN
      /\ Len(stored) = 2 * Count(accepted, PyInt(id))
      /\ PatientExists(id) =>
           /\ ChatView(id).history = [i \in 1..Len(stored) |-> HistoryEntry(stored[i])]
           /\ \A i \in 1..Len(stored) :
                stored[i].role = IF i % 2 = 1 THEN "user" ELSE "assistant"

\* C4: every row of chats has the id of an existing row of patients as its
\* patient_id.
C4_ChatsReferencePatients ==
  \A i \in 1..Len(chats) :
    \E j \in 1..Len(patients) : chats[i].patient_id = PyInt(patients[j].id)

AllSpaces(x) == \A i \in 1..Len(x) : x[i] = SP

\* the message is missing or empty after trimming
MessageMissingOrBlank(d) ==
  d.message.t = "none" \/ (d.message.t = "str" /\ AllSpaces(d.message.s))

\* the request ended at once with status 400, storing and calling nothing
RejectedStep ==
  /\ response'.status = 400
  /\ pc' = "idle"
  /\ chats' = chats
  /\ posts' = posts

\* the patient_id is missing or empty after trimming
IdMissingOrBlank(d) ==
  d.patient_id.t = "none" \/ (d.patient_id.t = "str" /\ AllSpaces(d.patient_id.s))

\* the patient_id is missing or the empty string
IdMissingOrEmpty(d) == d.patient_id.t = "none" \/ d.patient_id = PyStr(<<>>)

LastTwoTurns(content) ==
  /\ Len(chats) >= 2
  /\ LET u == chats[Len(chats) - 1]
         a == chats[Len(chats)]
     IN /\ u.patient_id = patient_id /\ u.role = "user" /\ u.content = PyStr(user_message)
        /\ a.patient_id = patient_id /\ a.role = "assistant" /\ a.content = content

IsErrorAdvisory(v) ==
  v.t = "str" /\ Len(v.s) > Len(ERROR_PREFIX) /\ IsPrefix(ERROR_PREFIX, v.s)

\* the first choice's message content and text as the response body holds them
FirstContent(o) ==
  IF o.top = "dict" /\ o.choices = "dict" /\ o.message = "dict" THEN o.content ELSE Absent

FirstText(o) == IF o.top = "dict" /\ o.choices = "dict" THEN o.text ELSE Absent

NonEmpty(f) == f.t \notin {"absent", "none"} /\ f # PyStr(<<>>)

\* the body is not of the shape choices[0].message.content / choices[0].text
UnexpectedShape(o) ==
  \/ o.top # "dict"
  \/ o.choices \in {"empty", "scalar"}
  \/ o.choices = "dict" /\ o.message = "null"
  \/ FirstContent(o).t = "obj"
  \/ ~NonEmpty(FirstContent(o)) /\ FirstText(o).t = "obj"

CallFailed(o) ==
  \/ o.kind \in {"ConnectionError", "ReadTimeout", "HTTPError", "JSONDecodeError"}
  \/ o.kind = "json" /\ UnexpectedShape(o)

\* C7: with a credential, any failure of the completion call (transport error,
\* non-2xx status, timeout, malformed or unexpectedly shaped body) is absorbed:
\* the request ends with status 200 and the error advisory as its reply, and the
\* assistant turn is stored with that string.
C7_FailuresAbsorbed ==
  (GROQ_API_KEY # <<>> /\ CallFailed(outcome)) =>
    /\ response.status # 500
    /\ pc = "idle" =>
         /\ response.status = 200
         /\ IsErrorAdvisory(response.reply)
         /\ LastTwoTurns(response.reply)

\* what the specification says the reply to a parsed body is
ClaimedReply(o) ==
  IF NonEmpty(FirstContent(o)) THEN FirstContent(o)
  ELSE IF NonEmpty(FirstText(o)) THEN FirstText(o)
  ELSE PyStr(EMPTY_ADVISORY)

\* C8 as stated: for every 2xx, parseable response the reply is the first
\* choice's message content if non-empty, else its text if non-empty, else the
\* empty-response advisory; it is never the empty string.
C8_EveryParsedBody ==
  (GROQ_API_KEY # <<>> /\ outcome.kind = "json" /\ response.status = 200) =>
    /\ response.reply = ClaimedReply(outcome)
    /\ response.reply # PyStr(<<>>)

\* the first choice can be read: the body is an object whose choices are absent
\* or start with an object whose message is absent or an object, and content
\* and text are strings, null or absent
ReadableBody(o) ==
  /\ o.kind = "json"
  /\ o.top = "dict"
  /\ o.choices \in {"absent", "dict"}
  /\ o.choices = "dict" => o.message \in {"absent", "dict"}
  /\ FirstContent(o).t # "obj"
  /\ FirstText(o).t # "obj"

\* C8 amended: for every 2xx response whose body is a JSON object whose first
\* choice can be read, the reply is the first choice's message content if
\* non-empty, else its text if non-empty, else the empty-response advisory; it
\* is never the empty string.
C8_ReadableBody ==
  (GROQ_API_KEY # <<>> /\ ReadableBody(outcome)) =>
    /\ assistant_text = ClaimedReply(outcome)
    /\ assistant_text # PyStr(<<>>)
    /\ response.status # 500
    /\ pc = "idle" => (response.status = 200 /\ response.reply = ClaimedReply(outcome))

\* the content was empty and the reply is the text field
C8_Witness ==
  /\ GROQ_API_KEY # <<>>
  /\ outcome.kind = "json"
  /\ FirstContent(outcome) = PyStr(<<>>)
  /\ response.status = 200
  /\ response.reply = PyStr(<<"alt">>)

\* C9: every login with a non-empty name returns an identifier greater than
\* every identifier returned before it, hence different from all of them.
C9_IdentifiersIncrease ==
  \A i, j \in 1..Len(issued) : i < j => issued[i] < issued[j]

C9_Witness == Len(issued) >= 2

\* the rows stored for the request's patient since the request arrived
StoredByRequest ==
  LET rows == WherePatient(chats, patient_id) IN SubSeq(rows, Len(prior) + 1, Len(rows))

TurnOf(r) == <<r.role, r.content>>

\* C10 as stated: the context is assembled, then the completion client is
\* called, then both turns are stored, then the reply is returned; neither turn
\* is stored before the completion call is made.
C10_StoredAfterCompletion ==
  /\ IsPrefix(log, <<"assemble", "complete", "save_user", "save_assistant", "reply">>)
  /\ "complete" \notin {log[i] : i \in 1..Len(log)} => StoredByRequest = <<>>

\* C10 amended: the steps of an accepted request that occur, occur in the order:
\* the user turn is stored, the context is assembled, the completion client is
\* called, the assistant turn is stored, the reply is returned; the assistant
\* turn is not stored before the completion call is made, the user turn is.
C10_UserStoredFirst ==
  /\ \/ IsPrefix(log, <<"save_user", "assemble", "complete", "save_assistant", "reply">>)
     \/ log = <<"save_user", "assemble", "complete", "error">>
  /\ pc = "save_user" => StoredByRequest = <<>>
  /\ pc \in {"assemble", "complete", "save_assistant"} =>
       /\ Len(StoredByRequest) = 1
       /\ TurnOf(StoredByRequest[1]) = <<"user", PyStr(user_message)>>
  /\ pc \in {"complete", "save_assistant", "reply"} => messages # <<>>
  /\ pc \in {"save_user", "assemble"} => messages = <<>>
  /\ pc = "reply" =>
       /\ Len(StoredByRequest) = 2
       /\ TurnOf(StoredByRequest[1]) = <<"user", PyStr(user_message)>>
       /\ TurnOf(StoredByRequest[2]) = <<"assistant", assistant_text>>
  /\ response.status = 200 => log[Len(log)] = "reply"

C10_Witness ==
  /\ pc = "idle"
  /\ response.status = 200
  /\ log = <<"save_user", "assemble", "complete", "save_assistant", "reply">>

====
